---- MODULE Spec2Model ----
(***************************************************************************)
(* The local-first synchronisation engine of the technology tracker:       *)
(* the hook useTechnologiesApi (src/src/components/TechnologiesApi.tsx),   *)
(* its debounced predecessor (src/unnamed/part_008) and the REST store it  *)
(* talks to (src/server.js).                                               *)
(*                                                                         *)
(* A record is modelled by the fields the engine's decisions read or       *)
(* write: id, title, status and the "deleted" marker.  The free-text and   *)
(* date fields (description, notes, studyStartDate, ...) are carried       *)
(* through every operation unchanged by the code and are left out.         *)
(* A network call is a message in flight; the server handles it and the    *)
(* client sees the answer in one step, or the transport loses it.          *)
(***************************************************************************)
EXTENDS Integers, Sequences, FiniteSets, TLC

(* ---- bounds of the model ---- *)
MaxEdits == 2
MaxFlushes == 2
MaxFetches == 1
MaxFailures == 1
MaxServerDeletes == 1
MaxId == 2
MaxUserChanges == 1
MaxTicks == 6
MaxStaleFetches == 2

(* ---- values ---- *)
Users == {"alice", "bob"}
NoUser == "none"
EditDiffs ==
  { [status |-> "in-progress"], [status |-> "completed"], [title |-> "Go"] }
NewTechData == { [title |-> "Go", status |-> "not-started"] }
FlushTriggers ==
  { "visibilitychange", "beforeunload", "unmount", "routeChange", "manual" }

(* pendingUpdates.current.set(id, { deleted: true }) *)
DeleteMarker == [deleted |-> TRUE]

(* let technologies = [ {id: 1, title: 'React', ...}, {id: 2, ...} ] *)
InitialRemote ==
  << [id |-> 1, title |-> "React", status |-> "not-started"],
     [id |-> 2, title |-> "Node.js", status |-> "not-started"] >>

(* ---- pure helpers ---- *)

(* { ...a, ...b } *)
Spread(a, b) ==
  [f \in (DOMAIN a) \cup (DOMAIN b) |-> IF f \in DOMAIN b THEN b[f] ELSE a[f]]

IdsOf(techs) == { techs[i].id : i \in DOMAIN techs }

(* technologies.find(t => t.id === id) / findIndex *)
FindIndex(techs, id) ==
  IF \E i \in DOMAIN techs : techs[i].id = id
  THEN CHOOSE i \in DOMAIN techs :
         techs[i].id = id /\ \A j \in DOMAIN techs : techs[j].id = id => i <= j
  ELSE 0

SetMax(S) == CHOOSE m \in S : \A x \in S : x <= m

LengthOf(techs) == Len(techs)

(* technologies.length > 0 ? Math.max(...technologies.map(t => t.id)) : 0 *)
MaxIdOf(techs) == IF Len(techs) > 0 THEN SetMax(IdsOf(techs)) ELSE 0

(* technologies.map(t => t.id === id ? updatedTech : t) *)
ReplaceById(techs, id, rec) ==
  [i \in DOMAIN techs |-> IF techs[i].id = id THEN rec ELSE techs[i]]

(* technologies.filter(tech => tech.id !== id) *)
RemoveById(techs, id) == SelectSeq(techs, LAMBDA t : t.id # id)

(* technologies.map(tech => ({ ...tech, status })) *)
SetAllStatus(techs, st) ==
  [i \in DOMAIN techs |-> Spread(techs[i], [status |-> st])]

(* The pending queue is a Map<number, Partial<Technology>>, modelled as the *)
(* set of its entries [id, diff].                                           *)
MapHas(m, id) == \E e \in m : e.id = id
MapGet(m, id) == (CHOOSE e \in m : e.id = id).diff
MapDelete(m, id) == { e \in m : e.id # id }
MapAppend(m, id, diff) == m \cup { [id |-> id, diff |-> diff] }
(* Map.prototype.set: an entry with the same key is replaced *)
MapSet(m, id, diff) == MapDelete(m, id) \cup { [id |-> id, diff |-> diff] }
MapKeys(m) == { e.id : e \in m }

RECURSIVE MapSetAll(_, _, _)
(* ids.forEach(id => pendingUpdates.current.set(id, diff)) *)
MapSetAll(m, ids, diff) ==
  IF ids = {} THEN m
  ELSE LET id == CHOOSE x \in ids : TRUE
       IN MapSetAll(MapSet(m, id, diff), ids \ {id}, diff)

RECURSIVE MapDeleteAll(_, _)
(* updatesArray.forEach(([id]) => pendingUpdates.current.delete(id)) *)
MapDeleteAll(m, ids) ==
  IF ids = {} THEN m
  ELSE LET id == CHOOSE x \in ids : TRUE
       IN MapDeleteAll(MapDelete(m, id), ids \ {id})

(* getUserDataKey: `techTrackerData_${currentUser}` or 'techTrackerData' *)
getUserDataKey(user) ==
  IF user # NoUser THEN <<"techTrackerData", user>> ELSE <<"techTrackerData">>

CacheKeys == { getUserDataKey(u) : u \in Users \cup {NoUser} }

(* localStorage.getItem(key): null, or the JSON of a record array *)
NoCache == [present |-> FALSE, data |-> << >>]
Cached(techs) == [present |-> TRUE, data |-> techs]

(* ---- the remote store, src/server.js ---- *)

(* app.put('/api/technologies/:id'): 404 when the id is unknown, else merge *)
ServerPutFound(store, id) == FindIndex(store, id) # 0
ServerPut(store, id, body) ==
  IF FindIndex(store, id) = 0 THEN store
  ELSE [store EXCEPT ![FindIndex(store, id)] = Spread(@, body)]

(* app.delete('/api/technologies/:id'): splice(index, 1) *)
ServerDelete(store, id) ==
  IF FindIndex(store, id) = 0 THEN store
  ELSE LET k == FindIndex(store, id)
       IN [i \in 1..(Len(store) - 1) |-> IF i < k THEN store[i] ELSE store[i + 1]]

(* app.get('/api/technologies'): { success: true, data: technologies } *)
ServerGetAll(store) == store

(* fetchTechnologies: data.data.map(tech => ({ ...tech, userId: currentUser })) *)
Fetched(data, user) == [i \in DOMAIN data |-> Spread(data[i], [userId |-> user])]

VARIABLES
  currentUser,        \* useState: the active identity, NoUser when logged out
  technologies,       \* useState: the in-memory collection
  cache,              \* localStorage: key -> [present, data]
  pendingUpdates,     \* useRef: the pending queue
  hasPendingChanges,  \* useState
  isSavingToApi,      \* useRef: the flush lock
  lastFetchTime,      \* useState
  now,                \* Date.now(), in minutes
  saveTimeoutRef,     \* useRef of the debounced variant: a save timer is armed
  remote,             \* server.js: let technologies
  requests,           \* PUT requests in flight: [rid, id, body]
  runs,               \* runs of savePendingUpdates awaiting Promise.all
  fetches,            \* GET requests in flight: [owner, user, force]
  sync,               \* position of syncWithApi / syncLocalToApi
  nEdits, nFlushes, nFetches, nFailures, nServerDeletes,
  edits,              \* history: values set for an id since its entry was absent
  failedSent,         \* history: entries whose request failed in a flush
  lastOp,             \* history: the operation that produced this state
  mountUser,          \* the identity of the first render, which the effects with
                      \* an empty dependency list keep reading
  imports,            \* importRoadmap calls awaiting their response
  nUserChanges,
  hung,               \* PUT requests the remote never answers
  saveTimers,         \* debounced variant: due times of the pending save timers
  lastUpdateAt        \* history: Date.now() at the last updateTechnology call

vars ==
  << currentUser, technologies, cache, pendingUpdates, hasPendingChanges,
     isSavingToApi, lastFetchTime, now, saveTimeoutRef, remote, requests, runs,
     fetches, sync, nEdits, nFlushes, nFetches, nFailures, nServerDeletes,
     edits, failedSent, lastOp, mountUser, imports, nUserChanges, hung,
     saveTimers, lastUpdateAt >>

AllIds == 1..(Len(InitialRemote) + 2 * MaxEdits)

Op(name, id, ok) ==
  [op |-> name, id |-> id, ok |-> ok, entries |-> {}, acked |-> {}, served |-> TRUE]


(* 5 * 60 * 1000 ms, in minutes *)
FetchThreshold == 5

(* The hook mounts with apiUser = alice in localStorage.  The identity's     *)
(* cache entry is either absent (first visit) or holds the snapshot of an   *)
(* earlier session; initData loads it into the collection.                 *)
Init ==
  /\ currentUser = "alice"
  /\ mountUser = "alice"
  /\ imports = {}
  /\ nUserChanges = 0
  /\ hung = {}
  /\ saveTimers = {}
  /\ lastUpdateAt = 0
  /\ \E c \in { NoCache, Cached(Fetched(InitialRemote, "alice")) } :
       /\ cache = [k \in CacheKeys |->
                     IF k = getUserDataKey("alice") THEN c ELSE NoCache]
       /\ technologies = c.data
       /\ lastFetchTime = IF c.present THEN FetchThreshold ELSE 0
  /\ now = FetchThreshold
  /\ pendingUpdates = {}
  /\ hasPendingChanges = FALSE
  /\ isSavingToApi = FALSE
  /\ saveTimeoutRef = FALSE
  /\ remote = InitialRemote
  /\ requests = {}
  /\ runs = {}
  /\ fetches = {}
  /\ sync = [pc |-> "idle", rid |-> 0]
  /\ nEdits = 0 /\ nFlushes = 0 /\ nFetches = 0 /\ nFailures = 0
  /\ nServerDeletes = 0
  /\ edits = [i \in AllIds |-> << >>]
  /\ failedSent = {}
  /\ lastOp = Op("init", 0, TRUE)

(* ---- local mutations, src/src/components/TechnologiesApi.tsx ---- *)

(* handleTechnologyUpdate, run by notifyTechnologyUpdate(): the collection  *)
(* is re-read from the cache entry of the identity of the last render       *)
handleTechnologyUpdate(techs, store) ==
  IF store[getUserDataKey(currentUser)].present
  THEN store[getUserDataKey(currentUser)].data
  ELSE techs

(* setTechnologies(techs); localStorage.setItem(key, ...);                  *)
(* notifyTechnologyUpdate()                                                 *)
WriteThroughAs(user, techs) ==
  /\ cache' = [cache EXCEPT ![getUserDataKey(user)] = Cached(techs)]
  /\ technologies' = handleTechnologyUpdate(techs, cache')

WriteThrough(techs) == WriteThroughAs(currentUser, techs)

QueuesThenThrows(name, id) ==
  /\ lastOp' = Op(name, id, FALSE)
  /\ pendingUpdates' = MapSet(pendingUpdates, id, DeleteMarker)
  /\ UNCHANGED << technologies, cache, hasPendingChanges, edits >>

(* the operation threw before it changed anything *)
Throws(name, id) ==
  /\ lastOp' = Op(name, id, FALSE)
  /\ UNCHANGED << technologies, cache, pendingUpdates, hasPendingChanges, edits >>

Recorded(ids, value) ==
  edits' = [i \in AllIds |-> IF i \in ids THEN Append(edits[i], value) ELSE edits[i]]

addTechnology(techData) ==
  /\ nEdits < MaxEdits
  /\ nEdits' = nEdits + 1
  /\ IF currentUser = NoUser
     THEN Throws("addTechnology", 0)
     ELSE LET newTech ==
                Spread(Spread([id |-> MaxIdOf(technologies) + 1], techData),
                       [userId |-> currentUser])
          IN /\ WriteThrough(Append(technologies, newTech))
             /\ hasPendingChanges' = TRUE
             /\ pendingUpdates' = MapSet(pendingUpdates, newTech.id, newTech)
             /\ Recorded({newTech.id}, newTech)
             /\ lastOp' = Op("addTechnology", newTech.id, TRUE)
  /\ UNCHANGED << saveTimers, lastUpdateAt, hung, mountUser, imports, nUserChanges, currentUser, isSavingToApi, lastFetchTime, now, saveTimeoutRef,
                  remote, requests, runs, fetches, sync, nFlushes, nFetches,
                  nFailures, nServerDeletes, failedSent >>

updateTechnology(id, updates) ==
  /\ nEdits < MaxEdits
  /\ nEdits' = nEdits + 1
  /\ IF currentUser = NoUser \/ FindIndex(technologies, id) = 0
     THEN Throws("updateTechnology", id)
     ELSE LET tech == technologies[FindIndex(technologies, id)]
              updatedTech == Spread(Spread(tech, updates), [userId |-> currentUser])
          IN /\ WriteThrough(ReplaceById(technologies, id, updatedTech))
             /\ hasPendingChanges' = TRUE
             /\ pendingUpdates' = MapSet(pendingUpdates, id, updates)
             /\ Recorded({id}, updates)
             /\ lastOp' = Op("updateTechnology", id, TRUE)
  /\ UNCHANGED << saveTimers, lastUpdateAt, hung, mountUser, imports, nUserChanges, currentUser, isSavingToApi, lastFetchTime, now, saveTimeoutRef,
                  remote, requests, runs, fetches, sync, nFlushes, nFetches,
                  nFailures, nServerDeletes, failedSent >>

deleteTechnology(id) ==
  /\ nEdits < MaxEdits
  /\ nEdits' = nEdits + 1
  /\ IF currentUser = NoUser \/ FindIndex(technologies, id) = 0
     THEN Throws("deleteTechnology", id)
     ELSE /\ WriteThrough(RemoveById(technologies, id))
          /\ hasPendingChanges' = TRUE
          /\ pendingUpdates' = MapSet(pendingUpdates, id, DeleteMarker)
          /\ Recorded({id}, DeleteMarker)
          /\ lastOp' = Op("deleteTechnology", id, TRUE)
  /\ UNCHANGED << saveTimers, lastUpdateAt, hung, mountUser, imports, nUserChanges, currentUser, isSavingToApi, lastFetchTime, now, saveTimeoutRef,
                  remote, requests, runs, fetches, sync, nFlushes, nFetches,
                  nFailures, nServerDeletes, failedSent >>

(* markAllDone (st = "completed") and resetAllStatuses (st = "not-started") *)
SetAllStatuses(name, st) ==
  /\ nEdits < MaxEdits
  /\ nEdits' = nEdits + 1
  /\ IF currentUser = NoUser
     THEN Throws(name, 0)
     ELSE /\ WriteThrough(SetAllStatus(technologies, st))
          /\ hasPendingChanges' = TRUE
          /\ pendingUpdates' =
               MapSetAll(pendingUpdates, IdsOf(technologies), [status |-> st])
          /\ Recorded(IdsOf(technologies), [status |-> st])
          /\ lastOp' = Op(name, 0, TRUE)
  /\ UNCHANGED << saveTimers, lastUpdateAt, hung, mountUser, imports, nUserChanges, currentUser, isSavingToApi, lastFetchTime, now, saveTimeoutRef,
                  remote, requests, runs, fetches, sync, nFlushes, nFetches,
                  nFailures, nServerDeletes, failedSent >>

markAllDone == SetAllStatuses("markAllDone", "completed")

resetAllStatuses == SetAllStatuses("resetAllStatuses", "not-started")

(* ---- the flush, savePendingUpdates ---- *)

(* if (pendingUpdates.current.size === 0 || isSavingToApi.current) return *)
FlushGuard == pendingUpdates # {} /\ ~isSavingToApi

(* isSavingToApi.current = true; updatesToProcess = new Map(pendingUpdates);  *)
(* one updateTechnologyToApi(id, updates) per entry                          *)
StartRun(rid) ==
  /\ isSavingToApi' = TRUE
  /\ runs' = runs \cup { [rid |-> rid, entries |-> pendingUpdates, acked |-> {}] }
  /\ requests' = requests \cup
       { [rid |-> rid, id |-> e.id, body |-> e.diff] : e \in pendingUpdates }

(* fetchTechnologies(true) as called by the sync functions *)
SyncFetch(user) ==
  /\ fetches' = fetches \cup { [owner |-> "sync", user |-> user, force |-> TRUE] }
  /\ sync' = [pc |-> "fetch", rid |-> 0]

(* a call of savePendingUpdates by a page-lifecycle handler, the route-change *)
(* effect of App.tsx or the delete handler of TechnologiesFromApi.tsx        *)
FlushAttempt(trigger) ==
  /\ nFlushes < MaxFlushes
  /\ nFlushes' = nFlushes + 1
  /\ IF FlushGuard
     THEN /\ StartRun(nFlushes + 1)
          /\ lastOp' = Op("flushStart", 0, TRUE)
     ELSE /\ lastOp' = Op("flushSkip", 0, TRUE)
          /\ UNCHANGED << isSavingToApi, runs, requests >>
  /\ UNCHANGED << saveTimers, lastUpdateAt, hung, mountUser, imports, nUserChanges, currentUser, technologies, cache, pendingUpdates,
                  hasPendingChanges, lastFetchTime, now, saveTimeoutRef, remote,
                  fetches, sync, nEdits, nFetches, nFailures, nServerDeletes,
                  edits, failedSent >>

(* syncWithApi / syncLocalToApi up to their first await *)
SyncStart(name) ==
  /\ sync.pc = "idle"
  /\ nFlushes < MaxFlushes /\ nFetches < MaxFetches
  /\ nFlushes' = nFlushes + 1
  /\ nFetches' = nFetches + 1
  /\ lastOp' = Op(name, 0, currentUser # NoUser)
  /\ IF currentUser = NoUser
     THEN UNCHANGED << isSavingToApi, runs, requests, fetches, sync >>
     ELSE IF FlushGuard
          THEN /\ StartRun(nFlushes + 1)
               /\ sync' = [pc |-> "save", rid |-> nFlushes + 1]
               /\ UNCHANGED fetches
          ELSE /\ SyncFetch(currentUser)
               /\ UNCHANGED << isSavingToApi, runs, requests >>
  /\ UNCHANGED << saveTimers, lastUpdateAt, hung, mountUser, imports, nUserChanges, currentUser, technologies, cache, pendingUpdates,
                  hasPendingChanges, lastFetchTime, now, saveTimeoutRef, remote,
                  nEdits, nFailures, nServerDeletes, edits, failedSent >>

(* The answer the client sees for a PUT: "served" (the server handled the   *)
(* request and its response arrived), "lostBefore" (the request never       *)
(* reached the server), "lostAfter" (the server handled it, the response    *)
(* was lost).                                                               *)
PutOutcomes == { "served", "lostBefore", "lostAfter" }

PutOk(q, outcome) == outcome = "served" /\ ServerPutFound(remote, q.id)

KeptQueue(queue, run) == queue

(* the queue after Promise.all resolved: every snapshotted id is deleted *)
AfterFlushSuccess(queue, run) == MapDeleteAll(queue, MapKeys(run.entries))

ClearedQueue(queue, run) == {}

(* the queue after Promise.all rejected: the catch block leaves it alone *)
AfterFlushFailure(queue, run) == queue

(* the continuation of a sync function that awaited run rid *)
SyncAfterRun(rid) ==
  IF sync.pc = "save" /\ sync.rid = rid
  THEN SyncFetch(currentUser)
  ELSE UNCHANGED << fetches, sync >>

PutDeliver(q, outcome) ==
  /\ q \in requests
  /\ q \notin hung
  /\ outcome # "served" => nFailures < MaxFailures
  /\ nFailures' = IF outcome = "served" THEN nFailures ELSE nFailures + 1
  /\ remote' = IF outcome = "lostBefore" THEN remote
               ELSE ServerPut(remote, q.id, q.body)
  /\ requests' = requests \ {q}
  /\ failedSent' =
       IF PutOk(q, outcome)
       THEN { e \in failedSent :
                ~(e.id = q.id /\ DOMAIN e.diff \subseteq DOMAIN q.body) }
       ELSE failedSent \cup { [id |-> q.id, diff |-> q.body] }
  /\ IF \E r \in runs : r.rid = q.rid
     THEN LET r == CHOOSE x \in runs : x.rid = q.rid
              acked == r.acked \cup {q.id}
          IN IF ~PutOk(q, outcome)
             THEN (* catch: setHasPendingChanges(true); finally: unlock *)
                  /\ pendingUpdates' = AfterFlushFailure(pendingUpdates, r)
                  /\ hasPendingChanges' = TRUE
                  /\ isSavingToApi' = FALSE
                  /\ runs' = runs \ {r}
                  /\ edits' = edits
                  /\ SyncAfterRun(r.rid)
                  /\ lastOp' = [op |-> "flushFail", id |-> q.id, ok |-> FALSE,
                                entries |-> r.entries, acked |-> r.acked,
                                served |-> outcome = "served"]
             ELSE IF acked = MapKeys(r.entries)
             THEN (* Promise.all resolved *)
                  /\ pendingUpdates' = AfterFlushSuccess(pendingUpdates, r)
                  /\ hasPendingChanges' = (pendingUpdates' # {})
                  /\ isSavingToApi' = FALSE
                  /\ runs' = runs \ {r}
                  /\ edits' = [i \in AllIds |->
                                 IF MapHas(pendingUpdates', i) THEN edits[i] ELSE << >>]
                  /\ SyncAfterRun(r.rid)
                  /\ lastOp' = [op |-> "flushOk", id |-> q.id, ok |-> TRUE,
                                entries |-> r.entries, acked |-> acked,
                                served |-> TRUE]
             ELSE /\ runs' = (runs \ {r}) \cup { [r EXCEPT !.acked = acked] }
                  /\ lastOp' = Op("putOk", q.id, TRUE)
                  /\ UNCHANGED << pendingUpdates, hasPendingChanges, isSavingToApi,
                                  edits, fetches, sync >>
     ELSE (* the run ended at an earlier rejection: nobody awaits this answer *)
          /\ lastOp' = Op("putOrphan", q.id, PutOk(q, outcome))
          /\ UNCHANGED << pendingUpdates, hasPendingChanges, isSavingToApi, runs,
                          edits, fetches, sync >>
  /\ UNCHANGED << saveTimers, lastUpdateAt, hung, mountUser, imports, nUserChanges, currentUser, technologies, cache, lastFetchTime, now,
                  saveTimeoutRef, nEdits, nFlushes, nFetches, nServerDeletes >>

(* ---- fetchTechnologies ---- *)

AlwaysRemote(force) == FALSE

AlwaysLocal(force) == TRUE

(* the two early returns of fetchTechnologies that answer from local data:  *)
(* !force && technologies.length > 0, then                                  *)
(* !force && Date.now() - lastFetchTime < 5 * 60 * 1000                     *)
UseLocalData(force) ==
  \/ ~force /\ Len(technologies) > 0
  \/ ~force /\ now - lastFetchTime < FetchThreshold

(* fetchTechnologies(force) up to its first await, called by the UI *)
fetchTechnologies(force) ==
  /\ nFetches' = nFetches + 1
  /\ ~ \E f \in fetches : f.owner = "ui"
  /\ IF currentUser = NoUser
     THEN /\ lastOp' = Op("fetchNoUser", 0, TRUE)
          /\ UNCHANGED fetches
     ELSE IF UseLocalData(force)
     THEN /\ lastOp' = Op("fetchLocal", 0, TRUE)
          /\ UNCHANGED fetches
     ELSE /\ fetches' = fetches \cup
                 { [owner |-> "ui", user |-> currentUser, force |-> force] }
          /\ lastOp' = Op("fetchStart", 0, TRUE)
  /\ UNCHANGED << saveTimers, lastUpdateAt, hung, mountUser, imports, nUserChanges, currentUser, technologies, cache, pendingUpdates,
                  hasPendingChanges, isSavingToApi, lastFetchTime, now,
                  saveTimeoutRef, remote, requests, runs, sync, nEdits, nFlushes,
                  nFailures, nServerDeletes, edits, failedSent >>

FetchStart(force) ==
  /\ nFetches < MaxFetches
  /\ fetchTechnologies(force)

(* the collection installed from a snapshot: setTechnologies(newData) *)
InstallSnapshot(newData, queue) == newData

FetchDeliver(f, served) ==
  /\ f \in fetches
  /\ ~served => nFailures < MaxFailures
  /\ nFailures' = IF served THEN nFailures ELSE nFailures + 1
  /\ fetches' = fetches \ {f}
  /\ IF served
     THEN LET newData ==
                InstallSnapshot(Fetched(ServerGetAll(remote), f.user), pendingUpdates)
          IN /\ technologies' = newData
             /\ cache' = [cache EXCEPT ![getUserDataKey(f.user)] = Cached(newData)]
             /\ lastFetchTime' = now
             /\ hasPendingChanges' = FALSE
             /\ sync' = IF f.owner = "sync" THEN [pc |-> "idle", rid |-> 0] ELSE sync
             /\ lastOp' = Op(IF f.owner = "sync" THEN "syncOk" ELSE "fetchOk", 0, TRUE)
     ELSE LET saved == cache[getUserDataKey(f.user)]
          IN /\ technologies' = IF saved.present THEN saved.data ELSE technologies
             /\ hasPendingChanges' =
                  IF f.owner = "sync" /\ saved.present THEN FALSE
                  ELSE hasPendingChanges
             /\ sync' = IF f.owner = "sync" THEN [pc |-> "idle", rid |-> 0] ELSE sync
             /\ lastOp' = Op(IF f.owner # "sync" THEN "fetchFail"
                             ELSE IF saved.present THEN "syncFallback"
                             ELSE "syncFail", 0, saved.present)
             /\ UNCHANGED << cache, lastFetchTime >>
  /\ UNCHANGED << saveTimers, lastUpdateAt, hung, mountUser, imports, nUserChanges, currentUser, pendingUpdates, isSavingToApi, now, saveTimeoutRef,
                  remote, requests, runs, nEdits, nFlushes, nFetches,
                  nServerDeletes, edits, failedSent >>

(* ---- another client of the same store (the DELETE of pages/stats.tsx) ---- *)
RemoteDelete(id) ==
  /\ nServerDeletes < MaxServerDeletes
  /\ nServerDeletes' = nServerDeletes + 1
  /\ FindIndex(remote, id) # 0
  /\ remote' = ServerDelete(remote, id)
  /\ lastOp' = Op("remoteDelete", id, TRUE)
  /\ UNCHANGED << saveTimers, lastUpdateAt, hung, mountUser, imports, nUserChanges, currentUser, technologies, cache, pendingUpdates,
                  hasPendingChanges, isSavingToApi, lastFetchTime, now,
                  saveTimeoutRef, requests, runs, fetches, sync, nEdits, nFlushes,
                  nFetches, nFailures, edits, failedSent >>

Next ==
  \/ \E d \in NewTechData : addTechnology(d)
  \/ \E id \in 1..MaxId, d \in EditDiffs : updateTechnology(id, d)
  \/ \E id \in 1..MaxId : deleteTechnology(id)
  \/ markAllDone
  \/ resetAllStatuses
  \/ \E t \in FlushTriggers : FlushAttempt(t)
  \/ \E n \in {"syncWithApi", "syncLocalToApi"} : SyncStart(n)
  \/ \E q \in requests, o \in PutOutcomes : PutDeliver(q, o)
  \/ \E force \in BOOLEAN : FetchStart(force)
  \/ \E f \in fetches, served \in BOOLEAN : FetchDeliver(f, served)
  \/ \E id \in 1..MaxId : RemoteDelete(id)

Spec == Init /\ [][Next]_vars

(* ---- history helpers ---- *)

RECURSIVE MergeAll(_)
(* the field-wise merge of a sequence of diffs, in order *)
MergeAll(ds) ==
  IF Len(ds) = 0 THEN [f \in {} |-> TRUE]
  ELSE Spread(MergeAll(SubSeq(ds, 1, Len(ds) - 1)), ds[Len(ds)])

IsEditDiff(d) == "id" \notin DOMAIN d /\ "deleted" \notin DOMAIN d

EntriesFor(id) == { e \in pendingUpdates : e.id = id }

(* ---- C1 ---- *)

QueueOnePerId == \A e1, e2 \in pendingUpdates : e1.id = e2.id => e1 = e2

RunOnePerId ==
  \A q1, q2 \in requests : (q1.rid = q2.rid /\ q1.id = q2.id) => q1 = q2

(* the last two values set for id 1, with its entry never removed in        *)
(* between, are status in-progress and then status completed                *)
ScenarioBCase ==
  /\ Len(edits[1]) >= 2
  /\ edits[1][Len(edits[1]) - 1] = [status |-> "in-progress"]
  /\ edits[1][Len(edits[1])] = [status |-> "completed"]

(* C1: the pending queue holds at most one entry per record id in every     *)
(* reachable state, a flush run sends at most one request per id, and after *)
(* status in-progress and then status completed were set for id 1 the queue *)
(* holds exactly one entry for id 1, whose status is completed.             *)
C1_OneEntryPerId ==
  /\ QueueOnePerId
  /\ RunOnePerId
  /\ ScenarioBCase =>
       EntriesFor(1) = { [id |-> 1, diff |-> [status |-> "completed"]] }

C1_Witness ==
  /\ ScenarioBCase
  /\ lastOp.op = "updateTechnology" /\ lastOp.id = 1 /\ lastOp.ok
  /\ Cardinality(pendingUpdates) = 1

(* ---- C2 ---- *)

(* C2: for any sequence of local edits to the same id made while its entry  *)
(* stays queued, the single queue entry for that id equals the field-wise   *)
(* merge of all the diffs in order.                                         *)
C2_EntryIsMerge ==
  \A id \in AllIds :
    (edits[id] # << >> /\ \A k \in DOMAIN edits[id] : IsEditDiff(edits[id][k]))
      => EntriesFor(id) = { [id |-> id, diff |-> MergeAll(edits[id])] }

(* ---- C3 ---- *)

(* the record of an entry's id carries every field of the entry's diff; a   *)
(* record with a queued delete marker is absent                             *)
DiffApplied(techs, e) ==
  IF e.diff = DeleteMarker THEN e.id \notin IdsOf(techs)
  ELSE FindIndex(techs, e.id) # 0 =>
         \A f \in DOMAIN e.diff : techs[FindIndex(techs, e.id)][f] = e.diff[f]

(* C3: after a successful fetch the installed collection and cache entry    *)
(* have every pending diff re-applied on top of the remote record.          *)
C3_FetchKeepsPendingEdits ==
  lastOp.op \in {"fetchOk", "syncOk"} =>
    \A e \in pendingUpdates :
      /\ DiffApplied(technologies, e)
      /\ DiffApplied(cache[getUserDataKey(currentUser)].data, e)

(* ---- C5 ---- *)

(* C5: when a flush ends in failure, every entry whose request had          *)
(* succeeded in that flush has been removed from the queue.                 *)
C5_SuccessesAcked ==
  lastOp.op = "flushFail" =>
    \A e \in lastOp.entries : e.id \in lastOp.acked => e \notin pendingUpdates

(* ---- C6 ---- *)

(* C6: every field of an entry whose request failed in a flush stays       *)
(* queued for that id (with the failed value or a later one) until a        *)
(* successful remote response covers it; after the failed flush             *)
(* hasPendingChanges is true and the flush lock is released.                *)
C6_FailedEntriesStayQueued ==
  /\ \A e \in failedSent :
       \E p \in pendingUpdates :
         p.id = e.id /\ DOMAIN e.diff \subseteq DOMAIN p.diff
  /\ lastOp.op = "flushFail" => (hasPendingChanges /\ ~isSavingToApi)

(* ---- C7 ---- *)

CompletedOps ==
  { "addTechnology", "updateTechnology", "deleteTechnology", "markAllDone",
    "resetAllStatuses", "flushOk", "flushFail", "fetchOk", "fetchFail",
    "syncOk", "syncFallback", "syncFail" }

(* C7: after an operation has completed, hasPendingChanges is true if and   *)
(* only if the pending queue is non-empty.                                  *)
C7_FlagIffQueueNonEmpty ==
  (lastOp.op \in CompletedOps /\ lastOp.ok) =>
    (hasPendingChanges <=> pendingUpdates # {})

(* ---- C8 ---- *)

IsCreateOfId1(entries) ==
  /\ Cardinality(entries) = 1
  /\ \A e \in entries : e.id = 1 /\ "id" \in DOMAIN e.diff

(* C8: addTechnology on an empty collection assigns id 1 and leaves exactly *)
(* one queue entry, the create, for id 1; a flush of that entry against a   *)
(* reachable remote succeeds, removes the entry and, with nothing else      *)
(* queued, leaves hasPendingChanges false.                                  *)
C8_ScenarioA ==
  /\ (lastOp.op = "addTechnology" /\ lastOp.ok /\ Len(technologies) = 1) =>
       /\ technologies[1].id = 1
       /\ EntriesFor(1) = { [id |-> 1, diff |-> technologies[1]] }
  /\ (lastOp.op \in {"flushOk", "flushFail"} /\ lastOp.served
        /\ IsCreateOfId1(lastOp.entries)) =>
       /\ lastOp.op = "flushOk"
       /\ EntriesFor(1) = {}
       /\ pendingUpdates = {} => ~hasPendingChanges

(* ---- C10 ---- *)

(* C10: once a flush has succeeded for the delete marker of record X,       *)
(* record X is no longer in the remote collection.                          *)
C10_DeleteReachesRemote ==
  lastOp.op = "flushOk" =>
    \A e \in lastOp.entries : e.diff = DeleteMarker => e.id \notin IdsOf(remote)

(* ---- C9 ---- *)

Marker(id) == [id |-> id, diff |-> DeleteMarker]

C9_DeleteEffect ==
  (lastOp.op = "deleteTechnology" /\ lastOp.ok) =>
    /\ lastOp.id \notin IdsOf(technologies)
    /\ lastOp.id \notin IdsOf(cache[getUserDataKey(currentUser)].data)
    /\ EntriesFor(lastOp.id) = { Marker(lastOp.id) }

(* a step of a flush that did not succeed for id: a skipped attempt, a     *)
(* started run, a single answer, a failed run, or a successful run whose     *)
(* snapshot did not hold id                                                  *)
FlushStepNotSucceedingFor(id) ==
  \/ lastOp'.op \in { "flushSkip", "flushStart", "flushFail", "putOk",
                      "putOrphan", "syncWithApi", "syncLocalToApi" }
  \/ lastOp'.op = "flushOk" /\ id \notin MapKeys(lastOp'.entries)

C9_MarkerSurvives ==
  [][ \A id \in AllIds :
        (Marker(id) \in pendingUpdates /\ FlushStepNotSucceedingFor(id))
          => Marker(id) \in pendingUpdates' ]_vars

(* C9: deleteTechnology(id) on an existing record removes it from the       *)
(* collection and from the identity's cache entry and places a delete       *)
(* marker for id in the pending queue; the marker stays in the queue across *)
(* every failed or skipped flush, until a flush succeeds for its id.        *)
C9_DeleteMarkerPersists == []C9_DeleteEffect /\ C9_MarkerSurvives

C9_Witness ==
  /\ lastOp.op = "flushFail"
  /\ \E e \in lastOp.entries : e.diff = DeleteMarker /\ e \in pendingUpdates

(* the flush lock of TechnologiesApi.tsx: at most one run awaits its        *)
(* requests, and it holds the lock                                          *)
SingleFlightLocked ==
  /\ Cardinality(runs) <= 1
  /\ runs # {} => isSavingToApi

(* ---- the debounced variant, src/unnamed/part_008 ---- *)

LegacyKey == getUserDataKey(NoUser)

InitDebounced ==
  /\ currentUser = NoUser
  /\ mountUser = NoUser
  /\ imports = {}
  /\ nUserChanges = 0
  /\ hung = {}
  /\ saveTimers = {}
  /\ lastUpdateAt = 0
  /\ \E c \in { NoCache, Cached(InitialRemote) } :
       /\ cache = [k \in CacheKeys |-> IF k = LegacyKey THEN c ELSE NoCache]
       /\ technologies = c.data
  /\ lastFetchTime = 0
  /\ now = FetchThreshold
  /\ pendingUpdates = {}
  /\ hasPendingChanges = FALSE
  /\ isSavingToApi = FALSE
  /\ saveTimeoutRef = FALSE
  /\ remote = InitialRemote
  /\ requests = {}
  /\ runs = {}
  /\ fetches = {}
  /\ sync = [pc |-> "idle", rid |-> 0]
  /\ nEdits = 0 /\ nFlushes = 0 /\ nFetches = 0 /\ nFailures = 0
  /\ nServerDeletes = 0
  /\ edits = [i \in AllIds |-> << >>]
  /\ failedSent = {}
  /\ lastOp = Op("init", 0, TRUE)

(* technologies.map(tech => tech.id === id ? { ...tech, ...updates } : tech) *)
MergeById(techs, id, updates) ==
  [i \in DOMAIN techs |->
     IF techs[i].id = id THEN Spread(techs[i], updates) ELSE techs[i]]

(* updateTechnology of the debounced variant: the queue entry is set and    *)
(* the 30 s save timer re-armed before the not-found check                  *)
D_updateTechnology(id, updates) ==
  /\ nEdits < MaxEdits
  /\ nEdits' = nEdits + 1
  /\ technologies' = MergeById(technologies, id, updates)
  /\ cache' = [cache EXCEPT ![LegacyKey] = Cached(technologies')]
  /\ hasPendingChanges' = TRUE
  /\ pendingUpdates' = MapSet(pendingUpdates, id, updates)
  /\ Recorded({id}, updates)
  /\ saveTimeoutRef' = TRUE
  /\ lastOp' = Op("updateTechnology", id, FindIndex(technologies, id) # 0)
  /\ UNCHANGED << saveTimers, lastUpdateAt, hung, mountUser, imports, nUserChanges, currentUser, isSavingToApi, lastFetchTime, now, remote,
                  requests, runs, fetches, sync, nFlushes, nFetches, nFailures,
                  nServerDeletes, failedSent >>

(* savePendingUpdates of the debounced variant: if (size === 0) return *)
D_savePendingUpdates ==
  /\ nFlushes < MaxFlushes
  /\ nFlushes' = nFlushes + 1
  /\ IF pendingUpdates # {}
     THEN /\ runs' = runs \cup
                { [rid |-> nFlushes + 1, entries |-> pendingUpdates, acked |-> {}] }
          /\ requests' = requests \cup
                { [rid |-> nFlushes + 1, id |-> e.id, body |-> e.diff] :
                    e \in pendingUpdates }
          /\ lastOp' = Op("flushStart", 0, TRUE)
     ELSE /\ lastOp' = Op("flushSkip", 0, TRUE)
          /\ UNCHANGED << runs, requests >>
  /\ UNCHANGED << lastUpdateAt, hung, mountUser, imports, nUserChanges, currentUser, technologies, cache, pendingUpdates,
                  hasPendingChanges, isSavingToApi, lastFetchTime, now, remote,
                  fetches, sync, nEdits, nFetches, nFailures, nServerDeletes,
                  edits, failedSent >>

(* the timer armed by updateTechnology elapses *)
D_SaveTimerFires ==
  /\ saveTimeoutRef
  /\ saveTimeoutRef' = FALSE
  /\ UNCHANGED saveTimers
  /\ D_savePendingUpdates

(* handleBeforeUnload, handleVisibilityChange and the unmount cleanup *)
D_LifecycleFlush(trigger) ==
  /\ pendingUpdates # {}
  /\ UNCHANGED << saveTimeoutRef, saveTimers >>
  /\ D_savePendingUpdates

D_PutDeliver(q, outcome) ==
  /\ q \in requests
  /\ outcome # "served" => nFailures < MaxFailures
  /\ nFailures' = IF outcome = "served" THEN nFailures ELSE nFailures + 1
  /\ remote' = IF outcome = "lostBefore" THEN remote
               ELSE ServerPut(remote, q.id, q.body)
  /\ requests' = requests \ {q}
  /\ failedSent' =
       IF PutOk(q, outcome)
       THEN { e \in failedSent :
                ~(e.id = q.id /\ DOMAIN e.diff \subseteq DOMAIN q.body) }
       ELSE failedSent \cup { [id |-> q.id, diff |-> q.body] }
  /\ IF \E r \in runs : r.rid = q.rid
     THEN LET r == CHOOSE x \in runs : x.rid = q.rid
              acked == r.acked \cup {q.id}
          IN IF ~PutOk(q, outcome)
             THEN (* catch: setHasPendingChanges(true) *)
                  /\ hasPendingChanges' = TRUE
                  /\ runs' = runs \ {r}
                  /\ lastOp' = [op |-> "flushFail", id |-> q.id, ok |-> FALSE,
                                entries |-> r.entries, acked |-> r.acked,
                                served |-> outcome = "served"]
                  /\ UNCHANGED << pendingUpdates, edits >>
             ELSE IF acked = MapKeys(r.entries)
             THEN (* pendingUpdates.current.clear(); setHasPendingChanges(false) *)
                  /\ pendingUpdates' = {}
                  /\ hasPendingChanges' = FALSE
                  /\ runs' = runs \ {r}
                  /\ edits' = [i \in AllIds |-> << >>]
                  /\ lastOp' = [op |-> "flushOk", id |-> q.id, ok |-> TRUE,
                                entries |-> r.entries, acked |-> acked,
                                served |-> TRUE]
             ELSE /\ runs' = (runs \ {r}) \cup { [r EXCEPT !.acked = acked] }
                  /\ lastOp' = Op("putOk", q.id, TRUE)
                  /\ UNCHANGED << pendingUpdates, hasPendingChanges, edits >>
     ELSE /\ lastOp' = Op("putOrphan", q.id, PutOk(q, outcome))
          /\ UNCHANGED << pendingUpdates, hasPendingChanges, runs, edits >>
  /\ UNCHANGED << saveTimers, lastUpdateAt, hung, mountUser, imports, nUserChanges, currentUser, technologies, cache, isSavingToApi, lastFetchTime,
                  now, saveTimeoutRef, fetches, sync, nEdits, nFlushes, nFetches,
                  nServerDeletes >>

LifecycleTriggers == { "visibilitychange", "beforeunload", "unmount" }


(* ---- C4 ---- *)

(* C4: at no time are two runs of savePendingUpdates awaiting their         *)
(* requests at once.                                                        *)
C4_SingleFlight == Cardinality(runs) <= 1

(* ---- identity changes, AuthContext.tsx and handleUserChange ---- *)

(* The userChanged event of login(username) and logout() (detail null).      *)
(* The handler belongs to an effect with an empty dependency list, so the   *)
(* fetchTechnologies it calls is the one of the first render: it reads that *)
(* render's currentUser and getUserDataKey.  The model starts with a        *)
(* registered user, so login() does not run migrateDataToUser.              *)
handleUserChange(username) ==
  /\ nUserChanges < MaxUserChanges
  /\ nUserChanges' = nUserChanges + 1
  /\ currentUser' = username
  /\ technologies' = << >>
  /\ lastFetchTime' = 0
  /\ fetches' =
       IF username # NoUser /\ mountUser # NoUser
       THEN fetches \cup { [owner |-> "userChange", user |-> mountUser, force |-> TRUE] }
       ELSE fetches
  /\ lastOp' = Op("handleUserChange", 0, TRUE)
  /\ UNCHANGED << saveTimers, lastUpdateAt, hung, mountUser, imports, cache, pendingUpdates, hasPendingChanges,
                  isSavingToApi, now, saveTimeoutRef, remote, requests, runs,
                  sync, nEdits, nFlushes, nFetches, nFailures, nServerDeletes,
                  edits, failedSent >>

(* ---- importRoadmap ---- *)

(* the records the import endpoint answers with *)
RoadmapData == << [title |-> "Rust"] >>

(* importRoadmap up to its await: the closure keeps the collection and the  *)
(* identity of the render it was called in                                  *)
importRoadmap ==
  /\ nEdits < MaxEdits
  /\ nEdits' = nEdits + 1
  /\ IF currentUser = NoUser
     THEN /\ lastOp' = Op("importRoadmap", 0, FALSE)
          /\ UNCHANGED imports
     ELSE /\ imports' = imports \cup { [user |-> currentUser, techs |-> technologies] }
          /\ lastOp' = Op("importStart", 0, TRUE)
  /\ UNCHANGED << saveTimers, lastUpdateAt, hung, mountUser, nUserChanges, currentUser, technologies, cache,
                  pendingUpdates, hasPendingChanges, isSavingToApi, lastFetchTime,
                  now, saveTimeoutRef, remote, requests, runs, fetches, sync,
                  nFlushes, nFetches, nFailures, nServerDeletes, edits, failedSent >>

(* data.data.map((tech, index) => ({ ...tech, id: maxId + index + 1,        *)
(* status: 'not-started', userId: currentUser }))                           *)
ImportedTechs(techs, user, data) ==
  [i \in DOMAIN data |->
     Spread(data[i], [id |-> MaxIdOf(techs) + i, status |-> "not-started",
                      userId |-> user])]

RECURSIVE MapSetEach(_, _)
(* importedTechs.forEach(tech => pendingUpdates.current.set(tech.id, tech)) *)
MapSetEach(m, techs) ==
  IF Len(techs) = 0 THEN m
  ELSE MapSetEach(MapSet(m, Head(techs).id, Head(techs)), Tail(techs))

(* the response of POST /api/import-roadmap, carrying the records data,     *)
(* reaches importRoadmap                                                    *)
ImportAnswered(m, served, data) ==
  /\ m \in imports
  /\ imports' = imports \ {m}
  /\ ~served => nFailures < MaxFailures
  /\ nFailures' = IF served THEN nFailures ELSE nFailures + 1
  /\ IF served
     THEN LET importedTechs == ImportedTechs(m.techs, m.user, data)
          IN /\ WriteThroughAs(m.user, m.techs \o importedTechs)
             /\ hasPendingChanges' = TRUE
             /\ pendingUpdates' = MapSetEach(pendingUpdates, importedTechs)
             /\ edits' = [i \in AllIds |->
                            IF \E k \in DOMAIN importedTechs : importedTechs[k].id = i
                            THEN Append(edits[i],
                                        importedTechs[CHOOSE k \in DOMAIN importedTechs :
                                                        importedTechs[k].id = i])
                            ELSE edits[i]]
             /\ lastOp' = [op |-> "importRoadmap", id |-> importedTechs[1].id,
                           ok |-> TRUE, entries |-> {}, acked |-> {},
                           served |-> TRUE]
     ELSE (* catch: setError, showError; { success: false } is returned *)
          /\ lastOp' = Op("importFail", 0, FALSE)
          /\ UNCHANGED << technologies, cache, pendingUpdates, hasPendingChanges,
                          edits >>
  /\ UNCHANGED << saveTimers, lastUpdateAt, hung, mountUser, nUserChanges, currentUser, isSavingToApi,
                  lastFetchTime, now, saveTimeoutRef, remote, requests, runs,
                  fetches, sync, nEdits, nFlushes, nFetches, nServerDeletes,
                  failedSent >>

ImportDeliver(m, served) == ImportAnswered(m, served, RoadmapData)

InitIdentity ==
  /\ \E u \in { "alice", NoUser } :
       /\ currentUser = u
       /\ mountUser = u
       /\ \E c \in { NoCache, Cached(Fetched(InitialRemote, "alice")) } :
            /\ cache = [k \in CacheKeys |->
                          IF k = getUserDataKey("alice") THEN c ELSE NoCache]
            /\ technologies = cache[getUserDataKey(u)].data
            /\ lastFetchTime =
                 IF cache[getUserDataKey(u)].present THEN FetchThreshold ELSE 0
  /\ imports = {}
  /\ nUserChanges = 0
  /\ hung = {}
  /\ saveTimers = {}
  /\ lastUpdateAt = 0
  /\ now = FetchThreshold
  /\ pendingUpdates = {}
  /\ hasPendingChanges = FALSE
  /\ isSavingToApi = FALSE
  /\ saveTimeoutRef = FALSE
  /\ remote = InitialRemote
  /\ requests = {}
  /\ runs = {}
  /\ fetches = {}
  /\ sync = [pc |-> "idle", rid |-> 0]
  /\ nEdits = 0 /\ nFlushes = 0 /\ nFetches = 0 /\ nFailures = 0
  /\ nServerDeletes = 0
  /\ edits = [i \in AllIds |-> << >>]
  /\ failedSent = {}
  /\ lastOp = Op("init", 0, TRUE)

NextIdentity ==
  \/ \E u \in Users \cup {NoUser} : handleUserChange(u)
  \/ \E d \in NewTechData : addTechnology(d)
  \/ \E id \in 1..MaxId, d \in EditDiffs : updateTechnology(id, d)
  \/ \E id \in 1..MaxId : deleteTechnology(id)
  \/ markAllDone
  \/ resetAllStatuses
  \/ importRoadmap
  \/ \E m \in imports, served \in BOOLEAN : ImportDeliver(m, served)
  \/ \E t \in FlushTriggers : FlushAttempt(t)
  \/ \E n \in {"syncWithApi", "syncLocalToApi"} : SyncStart(n)
  \/ \E q \in requests, o \in PutOutcomes : PutDeliver(q, o)
  \/ \E force \in BOOLEAN : FetchStart(force)
  \/ \E f \in fetches, served \in BOOLEAN : FetchDeliver(f, served)

SpecIdentity == InitIdentity /\ [][NextIdentity]_vars

(* ---- C11 ---- *)

(* C11: immediately after the userChanged handler has run, the in-memory    *)
(* collection and the pending queue are empty and lastFetchTime is reset,   *)
(* so no diff recorded under the previous identity is left to be sent.      *)
C11_IdentityChangeResets ==
  [][ currentUser' # currentUser =>
        /\ technologies' = << >>
        /\ lastFetchTime' = 0
        /\ pendingUpdates' = {} ]_vars

(* ---- C12 ---- *)

(* every record readers see belongs to the active identity *)
C12_CollectionOfActiveIdentity ==
  currentUser \in Users =>
    \A i \in DOMAIN technologies : technologies[i].userId = currentUser

(* while an identity stays active, no other identity's cache entry changes *)
C12_OtherCachesUntouched ==
  [][ (currentUser' = currentUser /\ currentUser \in Users) =>
        \A u \in Users \ {currentUser} :
          cache'[getUserDataKey(u)] = cache[getUserDataKey(u)] ]_vars

(* C12: while identity B is active the collection holds B's records and    *)
(* never A's, and nothing done under B changes A's cache entry: every      *)
(* cache write goes to B's key.                                             *)
C12_NoCrossIdentityBleed ==
  []C12_CollectionOfActiveIdentity /\ C12_OtherCachesUntouched

(* ---- the staleness gate over time ---- *)

(* Date.now() advances by a minute *)
Tick ==
  /\ now < FetchThreshold + MaxTicks
  /\ now' = now + 1
  /\ lastOp' = Op("tick", 0, TRUE)
  /\ UNCHANGED << saveTimers, lastUpdateAt, hung, mountUser, imports, nUserChanges, currentUser, technologies,
                  cache, pendingUpdates, hasPendingChanges, isSavingToApi,
                  lastFetchTime, saveTimeoutRef, remote, requests, runs, fetches,
                  sync, nEdits, nFlushes, nFetches, nFailures, nServerDeletes,
                  edits, failedSent >>

FetchCall(force) ==
  /\ nFetches < MaxStaleFetches
  /\ fetchTechnologies(force)

NextStaleness ==
  \/ Tick
  \/ \E force \in BOOLEAN : FetchCall(force)
  \/ \E f \in fetches, served \in BOOLEAN : FetchDeliver(f, served)
  \/ \E d \in NewTechData : addTechnology(d)
  \/ \E id \in 1..MaxId : deleteTechnology(id)

SpecStaleness == Init /\ [][NextStaleness]_vars

(* ---- C13 ---- *)

InsideWindow == now - lastFetchTime < FetchThreshold

(* C13: an unforced fetchTechnologies() call made inside the threshold      *)
(* window with a non-empty collection issues no request and leaves the      *)
(* collection, the cache and lastFetchTime unchanged; so of two unforced    *)
(* calls in one window, the second coming after the first one's snapshot    *)
(* was installed, only the first goes to the network.                       *)
C13_StalenessGate ==
  [][ (fetchTechnologies(FALSE) /\ InsideWindow /\ Len(technologies) > 0) =>
        UNCHANGED << fetches, technologies, cache, lastFetchTime >> ]_vars

C13_Witness ==
  /\ lastOp.op = "fetchLocal"
  /\ nFetches = 2
  /\ lastFetchTime > FetchThreshold
  /\ InsideWindow
  /\ Len(technologies) > 0
  /\ fetches = {}

(* ---- C14 ---- *)

C14_ElapsedCallsRemote ==
  [][ (fetchTechnologies(FALSE) /\ currentUser # NoUser
         /\ (~InsideWindow \/ Len(technologies) = 0)) =>
        fetches' # fetches ]_vars

C14_SuccessInstalls ==
  lastOp.op = "fetchOk" =>
    /\ lastFetchTime = now
    /\ technologies = Fetched(ServerGetAll(remote), currentUser)

(* C14: for an active identity an unforced fetchTechnologies() call made    *)
(* when the threshold has elapsed, or when the collection is empty, calls   *)
(* the remote even if the collection is non-empty; on success the snapshot  *)
(* is installed and lastFetchTime is set to the current time.               *)
C14_StaleFetchGoesRemote == C14_ElapsedCallsRemote /\ []C14_SuccessInstalls

(* ---- C15 ---- *)

(* C15: for an active identity fetchTechnologies(true) issues a network     *)
(* request whatever lastFetchTime is and whether or not the collection is   *)
(* empty.                                                                   *)
C15_ForceBypassesGate ==
  [][ (fetchTechnologies(TRUE) /\ currentUser # NoUser) =>
        \E f \in fetches' \ fetches : f.force /\ f.user = currentUser ]_vars

C15_Witness ==
  /\ lastOp.op = "fetchStart"
  /\ \E f \in fetches : f.force
  /\ InsideWindow
  /\ Len(technologies) > 0

(* ---- C16 ---- *)

(* C16: when the identity's cache entry is populated and the remote fetch   *)
(* fails, the collection, the cache and lastFetchTime are what they were.   *)
C16_FallbackKeepsCollection ==
  [][ \A f \in fetches :
        (FetchDeliver(f, FALSE) /\ cache[getUserDataKey(f.user)].present) =>
          UNCHANGED << technologies, cache, lastFetchTime >> ]_vars

(* ---- C17 ---- *)

(* C17: updateTechnology and deleteTechnology on an id that is not in the   *)
(* collection fail and leave the collection, the cache, the pending queue,  *)
(* hasPendingChanges and the save timer as they were.                       *)
C17_NotFoundChangesNothing ==
  [][ \A id \in 1..MaxId :
        (/\ FindIndex(technologies, id) = 0
         /\ \/ deleteTechnology(id)
            \/ \E d \in EditDiffs : updateTechnology(id, d)
            \/ \E d \in EditDiffs : D_updateTechnology(id, d))
          => /\ ~lastOp'.ok
             /\ UNCHANGED << technologies, cache, pendingUpdates,
                             hasPendingChanges, saveTimeoutRef >> ]_vars

(* ---- C18 ---- *)

(* a call of one of the hook's mutation entry points *)
MutationCall ==
  \/ \E d \in NewTechData : addTechnology(d)
  \/ \E id \in 1..MaxId, d \in EditDiffs : updateTechnology(id, d)
  \/ \E id \in 1..MaxId : deleteTechnology(id)
  \/ markAllDone
  \/ resetAllStatuses
  \/ importRoadmap
  \/ \E n \in {"syncWithApi", "syncLocalToApi"} : SyncStart(n)

(* C18: with no active identity every mutation entry point fails and        *)
(* changes neither the collection, the cache nor the pending queue, and     *)
(* sends nothing to the remote.                                             *)
C18_NoIdentityNoMutation ==
  [][ (currentUser = NoUser /\ MutationCall) =>
        /\ ~lastOp'.ok
        /\ UNCHANGED << technologies, cache, pendingUpdates, requests, fetches,
                        imports, remote >> ]_vars

C18_Witness ==
  /\ currentUser = NoUser
  /\ lastOp.op \in { "addTechnology", "updateTechnology", "deleteTechnology",
                     "markAllDone", "resetAllStatuses", "importRoadmap",
                     "syncWithApi", "syncLocalToApi" }
  /\ ~lastOp.ok
  /\ pendingUpdates # {}

(* ---- C19 ---- *)

LocalMutations ==
  { "addTechnology", "updateTechnology", "deleteTechnology", "markAllDone",
    "resetAllStatuses", "importRoadmap" }

(* C19: after a local mutation has returned, the cache entry of the active  *)
(* identity holds the same record sequence as the collection and the        *)
(* mutation is recorded in the pending queue.                               *)
C19_WriteThrough ==
  (lastOp.op \in LocalMutations /\ lastOp.ok /\ currentUser \in Users) =>
    /\ cache[getUserDataKey(currentUser)] = Cached(technologies)
    /\ IF lastOp.op \in { "markAllDone", "resetAllStatuses" }
       THEN \A id \in IdsOf(technologies) : MapHas(pendingUpdates, id)
       ELSE MapHas(pendingUpdates, lastOp.id)

(* ---- C20 ---- *)

(* C20: every mutation that leaves the pending queue non-empty arms a save  *)
(* timer, so that a dirty queue is flushed without any lifecycle event or   *)
(* sync request.                                                            *)
C20_DirtyQueueArmsTimer ==
  (lastOp.op \in LocalMutations /\ lastOp.ok /\ pendingUpdates # {}) =>
    saveTimeoutRef

(* ---- fetchTechnologies of the debounced variant, src/unnamed/part_008 ---- *)

(* 60000 ms, in minutes *)
DebouncedFetchThreshold == 1

(* if (!force && timeSinceLastFetch < 60000 && technologies.length > 0) *)
D_UseLocalData(force) ==
  ~force /\ now - lastFetchTime < DebouncedFetchThreshold /\ Len(technologies) > 0

D_fetchTechnologies(force) ==
  /\ nFetches < MaxStaleFetches
  /\ nFetches' = nFetches + 1
  /\ fetches = {}
  /\ IF D_UseLocalData(force)
     THEN /\ lastOp' = Op("fetchLocal", 0, TRUE)
          /\ UNCHANGED fetches
     ELSE /\ fetches' = { [owner |-> "ui", user |-> NoUser, force |-> force] }
          /\ lastOp' = Op("fetchStart", 0, TRUE)
  /\ UNCHANGED << saveTimers, lastUpdateAt, hung, mountUser, imports, nUserChanges, currentUser, technologies,
                  cache, pendingUpdates, hasPendingChanges, isSavingToApi,
                  lastFetchTime, now, saveTimeoutRef, remote, requests, runs,
                  sync, nEdits, nFlushes, nFailures, nServerDeletes, edits,
                  failedSent >>

(* the answer of GET /api/technologies reaches the debounced variant: the   *)
(* snapshot is installed when it differs from the collection; a failure is  *)
(* rethrown and leaves the local data alone                                 *)
D_FetchDeliver(f, served) ==
  /\ f \in fetches
  /\ ~served => nFailures < MaxFailures
  /\ nFailures' = IF served THEN nFailures ELSE nFailures + 1
  /\ fetches' = fetches \ {f}
  /\ IF served
     THEN LET newData == ServerGetAll(remote)
          IN /\ technologies' = newData
             /\ cache' = IF newData # technologies
                         THEN [cache EXCEPT ![LegacyKey] = Cached(newData)]
                         ELSE cache
             /\ lastFetchTime' = now
             /\ lastOp' = Op("fetchOk", 0, TRUE)
     ELSE /\ lastOp' = Op("fetchFail", 0, FALSE)
          /\ UNCHANGED << technologies, cache, lastFetchTime >>
  /\ UNCHANGED << saveTimers, lastUpdateAt, hung, mountUser, imports, nUserChanges, currentUser, pendingUpdates,
                  hasPendingChanges, isSavingToApi, now, saveTimeoutRef, remote,
                  requests, runs, sync, nEdits, nFlushes, nFetches,
                  nServerDeletes, edits, failedSent >>

NextDebounced ==
  \/ \E id \in 1..MaxId, d \in EditDiffs : D_updateTechnology(id, d)
  \/ D_SaveTimerFires
  \/ \E t \in LifecycleTriggers : D_LifecycleFlush(t)
  \/ \E q \in requests, o \in PutOutcomes : D_PutDeliver(q, o)

SpecDebounced == InitDebounced /\ [][NextDebounced]_vars

NextDebouncedFetch ==
  \/ \E id \in 1..MaxId, d \in EditDiffs : D_updateTechnology(id, d)
  \/ \E force \in BOOLEAN : D_fetchTechnologies(force)
  \/ \E f \in fetches, served \in BOOLEAN : D_FetchDeliver(f, served)
  \/ Tick

SpecDebouncedFetch == InitDebounced /\ [][NextDebouncedFetch]_vars

(* the gate of the debounced variant: inside its window and with a          *)
(* non-empty collection an unforced call is answered locally                *)
D_StalenessGate ==
  [][ (D_fetchTechnologies(FALSE) /\ Len(technologies) > 0
         /\ now - lastFetchTime < DebouncedFetchThreshold) =>
        UNCHANGED << fetches, technologies, cache, lastFetchTime >> ]_vars

(* ---- termination of the flush ---- *)

MaxHangs == 1

(* The remote accepts the connection of a PUT and never answers it.  The    *)
(* fetch() of updateTechnologyToApi carries no signal (unlike the GET of     *)
(* fetchTechnologies, which has AbortSignal.timeout(10000)), so nothing      *)
(* settles the promise and Promise.all in savePendingUpdates stays pending.  *)
RemoteHangs(q) ==
  /\ q \in requests \ hung
  /\ Cardinality(hung) < MaxHangs
  /\ hung' = hung \cup {q}
  /\ lastOp' = Op("hang", q.id, TRUE)
  /\ UNCHANGED << saveTimers, lastUpdateAt, mountUser, imports, nUserChanges, currentUser, technologies,
                  cache, pendingUpdates, hasPendingChanges, isSavingToApi,
                  lastFetchTime, now, saveTimeoutRef, remote, requests, runs,
                  fetches, sync, nEdits, nFlushes, nFetches, nFailures,
                  nServerDeletes, edits, failedSent >>

(* a PUT the remote does answer is settled *)
PutAnswered == \E q \in requests, o \in PutOutcomes : PutDeliver(q, o)

NextFlushing ==
  \/ \E d \in NewTechData : addTechnology(d)
  \/ \E id \in 1..MaxId, d \in EditDiffs : updateTechnology(id, d)
  \/ \E id \in 1..MaxId : deleteTechnology(id)
  \/ \E t \in FlushTriggers : FlushAttempt(t)
  \/ \E q \in requests, o \in PutOutcomes : PutDeliver(q, o)
  \/ \E q \in requests : RemoteHangs(q)

(* every request that the remote answers is answered eventually; a request  *)
(* it never answers is settled only by what the client does                 *)
SpecFlushing == Init /\ [][NextFlushing]_vars /\ WF_vars(PutAnswered)

(* ---- C21 ---- *)

(* C21: every flush that starts eventually ends and releases the flush      *)
(* lock, also when the remote never answers one of its requests.            *)
C21_FlushEnds == isSavingToApi ~> ~isSavingToApi

(* without a request that is never answered every flush ends *)
C21_AnsweredFlushEnds == (isSavingToApi /\ hung = {}) ~> (~isSavingToApi \/ hung # {})

(* ---- POST /api/import-roadmap, src/server.js ---- *)

(* Date.now() on the server *)
ServerNow == 1000

SampleTitles == << "HTML & CSS", "JavaScript", "React", "Node.js", "Database" >>

(* getSampleTechnologies(url): five records with ids Date.now() + 1 .. + 5 *)
getSampleTechnologies ==
  [i \in 1..5 |->
     [id |-> ServerNow + i, title |-> SampleTitles[i], status |-> "not-started"]]

TechNames ==
  << "HTML/CSS", "JavaScript", "React", "Node.js", "Database", "API Design",
     "Testing", "Deployment" >>

(* what an upstream (the CORS proxy, then the direct fetch) produces: a     *)
(* failure, the JSON value null, or a JSON document with or without a       *)
(* nodes array of labels                                                    *)
UpstreamFails == [kind |-> "fails", hasNodes |-> FALSE, nodes |-> << >>]
UpstreamNull == [kind |-> "null", hasNodes |-> FALSE, nodes |-> << >>]
UpstreamDoc(hasNodes, nodes) ==
  [kind |-> "json", hasNodes |-> hasNodes, nodes |-> nodes]

Upstreams ==
  { UpstreamFails, UpstreamNull, UpstreamDoc(FALSE, << >>),
    UpstreamDoc(TRUE, << >>), UpstreamDoc(TRUE, << " ", "Rust" >>),
    UpstreamDoc(TRUE, << "Rust", "Zig" >>) }

(* the request bodies: { url } with url missing or empty, or a roadmap url *)
ImportBodies == { [url |-> ""], [url |-> "https://roadmap.sh/frontend.json"] }

(* node.label && node.label.trim() *)
LabelKept(label) == label \notin { "", " " }

RECURSIVE NodesToTechs(_, _)
(* roadmapData.nodes.forEach((node, index) => ... push({ id: Date.now() +     *)
(* index, title: node.label.trim(), status: 'not-started', ... }))          *)
NodesToTechs(nodes, k) ==
  IF k > Len(nodes) THEN << >>
  ELSE IF LabelKept(nodes[k])
       THEN << [id |-> ServerNow + k - 1, title |-> nodes[k],
                status |-> "not-started"] >> \o NodesToTechs(nodes, k + 1)
       ELSE NodesToTechs(nodes, k + 1)

(* processRoadmapData: the labelled nodes, or the eight fixed names when    *)
(* there are none                                                           *)
processRoadmapData(roadmapData) ==
  LET fromNodes == IF roadmapData.hasNodes
                   THEN NodesToTechs(roadmapData.nodes, 1) ELSE << >>
  IN IF Len(fromNodes) = 0
     THEN [i \in 1..Len(TechNames) |->
             [id |-> ServerNow + i - 1, title |-> TechNames[i],
              status |-> "not-started"]]
     ELSE fromNodes

ImportResponse(status, success, data) ==
  [status |-> status, success |-> success, data |-> data]

(* app.post('/api/import-roadmap'): 400 without a url; the sample set when  *)
(* proxy and direct fetch both fail or when processing throws; else the     *)
(* processed roadmap                                                        *)
ImportRoadmapEndpoint(body, proxy, direct) ==
  IF body.url = "" THEN ImportResponse(400, FALSE, << >>)
  ELSE IF proxy.kind = "fails" /\ direct.kind = "fails"
  THEN ImportResponse(200, TRUE, getSampleTechnologies)
  ELSE LET roadmapData == IF proxy.kind # "fails" THEN proxy ELSE direct
       IN IF roadmapData.kind = "null"
          THEN ImportResponse(200, TRUE, getSampleTechnologies)
          ELSE ImportResponse(200, TRUE, processRoadmapData(roadmapData))

(* the endpoint handles the request of an importRoadmap call and the        *)
(* response reaches the client: response.ok, data.success and               *)
(* Array.isArray(data.data) decide between import and failure               *)
ImportServed(m, body, proxy, direct) ==
  LET r == ImportRoadmapEndpoint(body, proxy, direct)
  IN ImportAnswered(m, r.status = 200 /\ r.success, r.data)

NextImport ==
  \/ \E d \in NewTechData : addTechnology(d)
  \/ \E id \in 1..MaxId, d \in EditDiffs : updateTechnology(id, d)
  \/ \E id \in 1..MaxId : deleteTechnology(id)
  \/ importRoadmap
  \/ \E m \in imports, body \in ImportBodies, p, d \in Upstreams :
       ImportServed(m, body, p, d)
  \/ \E force \in BOOLEAN : FetchStart(force)
  \/ \E f \in fetches, served \in BOOLEAN : FetchDeliver(f, served)
  \/ \E id \in 1..MaxId : RemoteDelete(id)

SpecImport == Init /\ [][NextImport]_vars

(* ---- C22 ---- *)

UniqueIds(techs) ==
  \A i, j \in DOMAIN techs : techs[i].id = techs[j].id => i = j

C22_IdsUnique ==
  /\ UniqueIds(technologies)
  /\ \A k \in CacheKeys : UniqueIds(cache[k].data)

C22_AddAssignsNext ==
  [][ \A d \in NewTechData :
        (addTechnology(d) /\ currentUser # NoUser) =>
          /\ lastOp'.id = IF technologies = << >> THEN 1
                          ELSE SetMax(IdsOf(technologies)) + 1
          /\ \E i \in DOMAIN technologies' :
               technologies'[i].id = lastOp'.id /\ technologies'[i].title = d.title
     ]_vars

(* C22: in every reachable state no two records of the collection, or of a  *)
(* cache entry, have the same id, and addTechnology assigns the greatest    *)
(* existing id plus one (1 when the collection is empty).                   *)
C22_UniqueIds == []C22_IdsUnique /\ C22_AddAssignsNext

(* the five sample records imported onto a collection whose lowest id was   *)
(* deleted                                                                  *)
C22_Witness ==
  /\ lastOp.op = "importRoadmap" /\ lastOp.ok
  /\ Len(technologies) = 6
  /\ 1 \notin IdsOf(technologies)

(* ---- C23 ---- *)

(* a call of savePendingUpdates by a trigger or by a sync function *)
FlushCall ==
  \/ \E t \in FlushTriggers : FlushAttempt(t)
  \/ \E n \in {"syncWithApi", "syncLocalToApi"} : SyncStart(n)

(* after a successful flush the ids of its snapshot have no entry, so       *)
(* deleting one again leaves the queue as it is                             *)
C23_AckedEntriesGone ==
  lastOp.op = "flushOk" =>
    \A id \in MapKeys(lastOp.entries) : MapDelete(pendingUpdates, id) = pendingUpdates

C23_SecondFlushSendsNothing ==
  [][ (lastOp.op = "flushOk" /\ FlushCall) =>
        /\ \A q \in requests' \ requests : q.id \notin MapKeys(lastOp.entries)
        /\ lastOp'.ok
        /\ UNCHANGED << pendingUpdates, hasPendingChanges >> ]_vars

(* C23: once a flush has succeeded for an id and its entry has been         *)
(* removed, removing it again or triggering another flush with no           *)
(* intervening mutation is a no-op: no request is sent for that id, no      *)
(* error is raised, and the queue and hasPendingChanges are unchanged.      *)
C23_IdempotentAck == []C23_AckedEntriesGone /\ C23_SecondFlushSendsNothing

(* one edit, a flush that succeeded, and a second trigger that found        *)
(* nothing to send                                                          *)
C23_Witness ==
  /\ lastOp.op = "flushSkip"
  /\ nFlushes = 2 /\ nEdits = 1 /\ nFailures = 0
  /\ pendingUpdates = {} /\ requests = {} /\ ~isSavingToApi
  /\ remote # InitialRemote

(* ---- C24 ---- *)

(* C24: for every request to POST /api/import-roadmap, whatever the body    *)
(* and whatever the upstream does, the response has success = true and a    *)
(* non-empty data array, which is the five-record sample set when proxy and *)
(* direct fetch fail or the data cannot be processed.                       *)
C24_ImportNeverFails ==
  [][ \A m \in imports, body \in ImportBodies, p, d \in Upstreams :
        ImportServed(m, body, p, d) =>
          LET r == ImportRoadmapEndpoint(body, p, d)
          IN /\ r.success
             /\ Len(r.data) > 0
             /\ (p.kind = "fails" /\ d.kind \in {"fails", "null"}) =>
                  (r.data = getSampleTechnologies /\ Len(r.data) = 5) ]_vars

(* with a url in the body the endpoint always answers success and records *)
C24_WithUrlNeverFails ==
  [][ \A m \in imports, body \in ImportBodies, p, d \in Upstreams :
        (ImportServed(m, body, p, d) /\ body.url # "") =>
          LET r == ImportRoadmapEndpoint(body, p, d)
          IN r.success /\ Len(r.data) > 0 ]_vars

(* ---- POST /api/technologies/sync, src/server.js ---- *)

(* a field of the request body: an array of records, or anything else       *)
(* (undefined, null, a string), for which Array.isArray is false            *)
NotArray == [isArray |-> FALSE, items |-> << >>]
ArrayOf(techs) == [isArray |-> TRUE, items |-> techs]

SyncBody(techs, recs) == [technologies |-> techs, records |-> recs]

(* the record arrays a client posts: the empty array, a one-record array    *)
(* or its own collection                                                    *)
SyncArrays(local) ==
  { ArrayOf(<< >>),
    ArrayOf(<< [id |-> 7, title |-> "Rust", status |-> "completed"] >>),
    ArrayOf(local) }

SyncBodies(local) ==
  { SyncBody(t, r) : t, r \in SyncArrays(local) \cup {NotArray} }

ServerSyncRecords(store, body) ==
  IF body.records.isArray THEN body.records.items ELSE store

(* const { technologies: incomingTechs } = req.body;                        *)
(* if (incomingTechs && Array.isArray(incomingTechs))                       *)
(*   technologies = incomingTechs                                           *)
ServerSync(store, body) ==
  IF body.technologies.isArray THEN body.technologies.items ELSE store

(* a client posts body to /api/technologies/sync *)
SyncPost(body) ==
  /\ nFlushes < MaxFlushes
  /\ nFlushes' = nFlushes + 1
  /\ remote' = ServerSync(remote, body)
  /\ lastOp' = Op("syncPost", 0, TRUE)
  /\ UNCHANGED << saveTimers, lastUpdateAt, hung, mountUser, imports, nUserChanges, currentUser,
                  technologies, cache, pendingUpdates, hasPendingChanges,
                  isSavingToApi, lastFetchTime, now, saveTimeoutRef, requests,
                  runs, fetches, sync, nEdits, nFetches, nFailures,
                  nServerDeletes, edits, failedSent >>

(* syncWithApi of the hook without a queue (src/unnamed/part_009): the      *)
(* collection is posted as { technologies } and the array of the response   *)
(* is installed and cached                                                  *)
P9_syncWithApi(served) ==
  /\ nFlushes < MaxFlushes
  /\ nFlushes' = nFlushes + 1
  /\ ~served => nFailures < MaxFailures
  /\ nFailures' = IF served THEN nFailures ELSE nFailures + 1
  /\ IF served
     THEN /\ remote' = ServerSync(remote, SyncBody(ArrayOf(technologies), NotArray))
          /\ technologies' = remote'
          /\ cache' = [cache EXCEPT ![LegacyKey] = Cached(remote')]
          /\ lastOp' = Op("syncWithApi", 0, TRUE)
     ELSE /\ lastOp' = Op("syncWithApi", 0, FALSE)
          /\ UNCHANGED << remote, technologies, cache >>
  /\ UNCHANGED << saveTimers, lastUpdateAt, hung, mountUser, imports, nUserChanges, currentUser,
                  pendingUpdates, hasPendingChanges, isSavingToApi,
                  lastFetchTime, now, saveTimeoutRef, requests, runs, fetches,
                  sync, nEdits, nFetches, nServerDeletes, edits, failedSent >>

(* updateTechnology of the same hook while no endpoint is configured       *)
(* (saveApiEndpoint sets it between calls): the record is merged in the     *)
(* collection and the cache, nothing is sent                                *)
P9_updateTechnology(id, updates) ==
  /\ nEdits < MaxEdits
  /\ nEdits' = nEdits + 1
  /\ technologies' = MergeById(technologies, id, updates)
  /\ cache' = [cache EXCEPT ![LegacyKey] = Cached(technologies')]
  /\ lastOp' = Op("updateTechnology", id, FindIndex(technologies, id) # 0)
  /\ UNCHANGED << saveTimers, lastUpdateAt, hung, mountUser, imports, nUserChanges, currentUser,
                  pendingUpdates, hasPendingChanges, isSavingToApi,
                  lastFetchTime, now, saveTimeoutRef, remote, requests, runs,
                  fetches, sync, nFlushes, nFetches, nFailures, nServerDeletes,
                  edits, failedSent >>

NextSync ==
  \/ \E body \in SyncBodies(technologies) : SyncPost(body)
  \/ \E served \in BOOLEAN : P9_syncWithApi(served)
  \/ \E id \in 1..MaxId, d \in EditDiffs : P9_updateTechnology(id, d)
  \/ \E id \in 1..MaxId : RemoteDelete(id)

SpecSync == InitDebounced /\ [][NextSync]_vars

(* ---- C25 ---- *)

(* C25: POST /api/technologies/sync replaces the whole remote collection    *)
(* with the record array carried in the request body under the field name   *)
(* records and returns the collection it now holds; a body without a record *)
(* array leaves the remote collection unchanged and returns it.             *)
C25_SyncReplacesWithRecords ==
  [][ \A body \in SyncBodies(technologies) :
        SyncPost(body) =>
          remote' = IF body.records.isArray THEN body.records.items ELSE remote
    ]_vars

(* C25 with the field name the code uses: the array is carried as           *)
(* technologies; the posted collection comes back as the response and is    *)
(* the remote collection afterwards                                         *)
C25_SyncReplacesWithTechnologies ==
  [][ /\ \A body \in SyncBodies(technologies) :
           SyncPost(body) =>
             remote' = IF body.technologies.isArray
                       THEN body.technologies.items ELSE remote
      /\ P9_syncWithApi(TRUE) =>
           (remote' = technologies /\ technologies' = remote') ]_vars

C25_Witness ==
  /\ lastOp.op = "syncPost"
  /\ remote = << [id |-> 7, title |-> "Rust", status |-> "completed"] >>

(* ---- C26 ---- *)

(* the entries queued by updateTechnology for an id of the snapshot of run  *)
(* entries that differ from the snapshotted entry: edits recorded while the *)
(* flush was in flight                                                      *)
NewerEdits(entries) ==
  { e \in pendingUpdates :
      e.id \in MapKeys(entries) /\ e \notin entries /\ IsEditDiff(e.diff) }

(* C26: an edit to record X recorded by updateTechnology while a flush that *)
(* snapshotted an older diff for X is in flight is still in the pending     *)
(* queue, with hasPendingChanges true, when that flush completes            *)
(* successfully.                                                            *)
C26_EditDuringFlushKept ==
  [][ (lastOp'.op = "flushOk" /\ runs' # runs
         /\ NewerEdits(lastOp'.entries) # {}) =>
        /\ NewerEdits(lastOp'.entries) \subseteq pendingUpdates'
        /\ hasPendingChanges' ]_vars

(* ---- C27 ---- *)

(* C27: the id given to a record by addTechnology or importRoadmap has no   *)
(* unsent entry in the pending queue, so a create entry never replaces a    *)
(* queued entry such as the delete marker of a record deleted before.       *)
C27_ProvisionalIdFresh ==
  [][ \A e \in pendingUpdates' \ pendingUpdates :
        "id" \in DOMAIN e.diff => ~MapHas(pendingUpdates, e.id) ]_vars

(* ---- C28 ---- *)

(* C28: the response of a fetch that was started under identity A and       *)
(* arrives after the active identity has changed installs no records into   *)
(* the collection and writes nothing to the cache entry of the identity     *)
(* that is active now.                                                      *)
C28_LateSnapshotDropped ==
  [][ \A f \in fetches :
        (/\ f.owner \in {"ui", "sync"}
         /\ f.user # currentUser
         /\ FetchDeliver(f, TRUE)) =>
          /\ technologies' = technologies
          /\ cache'[getUserDataKey(currentUser)] = cache[getUserDataKey(currentUser)]
    ]_vars

(* the late snapshot does not reach the cache entry of the active identity *)
C28_LateSnapshotNotCached ==
  [][ \A f \in fetches :
        (/\ f.owner \in {"ui", "sync"}
         /\ f.user # currentUser
         /\ FetchDeliver(f, TRUE)) =>
          cache'[getUserDataKey(currentUser)] = cache[getUserDataKey(currentUser)]
    ]_vars

(* ---- C29 ---- *)

(* the step in which a sync function issues its forced fetch: no flush is   *)
(* awaiting answers and no request of a flush is in flight                  *)
C29_FetchAfterFlush ==
  [][ (\E f \in fetches' \ fetches : f.owner = "sync") =>
        (runs' = {} /\ requests' = {}) ]_vars

(* a sync that reported success with hasPendingChanges false left no entry  *)
(* queued whose request failed                                              *)
C29_SuccessMeansFlushed ==
  (lastOp.op \in {"syncOk", "syncFallback"} /\ lastOp.ok /\ ~hasPendingChanges) =>
    failedSent \cap pendingUpdates = {}

(* C29: in syncWithApi and syncLocalToApi the forced fetch is issued only   *)
(* after every request of the preceding flush has settled and never while   *)
(* any flush is in flight, and the sync reports success with                *)
(* hasPendingChanges false only if that flush left the queue empty.         *)
C29_SyncOrdering == C29_FetchAfterFlush /\ []C29_SuccessMeansFlushed

(* ---- the save timer of the debounced variant over time ---- *)

(* setTimeout(..., 30000), in units of ten seconds *)
SaveDelay == 3

(* if (saveTimeoutRef.current) clearTimeout(saveTimeoutRef.current);        *)
(* saveTimeoutRef.current = setTimeout(..., 30000): the only pending timer  *)
(* is the one the ref holds, so clearing it leaves the new timer alone      *)
ArmTimer(timers, due) == {due}

(* Date.now() advances by ten seconds *)
T_Tick ==
  /\ now < FetchThreshold + MaxTicks
  /\ now' = now + 1
  /\ lastOp' = Op("tick", 0, TRUE)
  /\ UNCHANGED << saveTimers, lastUpdateAt, hung, mountUser, imports,
                  nUserChanges, currentUser, technologies, cache,
                  pendingUpdates, hasPendingChanges, isSavingToApi,
                  lastFetchTime, saveTimeoutRef, remote, requests, runs, fetches,
                  sync, nEdits, nFlushes, nFetches, nFailures, nServerDeletes,
                  edits, failedSent >>

(* updateTechnology of the debounced variant, with the due time of the      *)
(* timer it arms                                                            *)
T_updateTechnology(id, updates) ==
  /\ nEdits < MaxEdits
  /\ nEdits' = nEdits + 1
  /\ technologies' = MergeById(technologies, id, updates)
  /\ cache' = [cache EXCEPT ![LegacyKey] = Cached(technologies')]
  /\ hasPendingChanges' = TRUE
  /\ pendingUpdates' = MapSet(pendingUpdates, id, updates)
  /\ Recorded({id}, updates)
  /\ saveTimeoutRef' = TRUE
  /\ saveTimers' = ArmTimer(saveTimers, now + SaveDelay)
  /\ lastUpdateAt' = now
  /\ lastOp' = Op("updateTechnology", id, FindIndex(technologies, id) # 0)
  /\ UNCHANGED << hung, mountUser, imports, nUserChanges, currentUser,
                  isSavingToApi, lastFetchTime, now, remote, requests, runs,
                  fetches, sync, nFlushes, nFetches, nFailures, nServerDeletes,
                  failedSent >>

(* the timer due at d elapses and its callback runs savePendingUpdates *)
T_SaveTimerFires(d) ==
  /\ d \in saveTimers
  /\ now >= d
  /\ saveTimers' = saveTimers \ {d}
  /\ UNCHANGED saveTimeoutRef
  /\ D_savePendingUpdates

TimerFires == \E d \in saveTimers : T_SaveTimerFires(d)

NextDebouncedTimer ==
  \/ \E id \in 1..MaxId, d \in EditDiffs : T_updateTechnology(id, d)
  \/ TimerFires
  \/ \E t \in LifecycleTriggers : D_LifecycleFlush(t)
  \/ \E q \in requests, o \in PutOutcomes : D_PutDeliver(q, o)
  \/ T_Tick

SpecDebouncedTimer == InitDebounced /\ [][NextDebouncedTimer]_vars

(* ---- C30 ---- *)

C30_OneTimer == Cardinality(saveTimers) <= 1

C30_QuietPeriod ==
  [][ TimerFires => now - lastUpdateAt >= SaveDelay ]_vars

(* the timer-triggered flush sends, for every id edited since its entry was *)
(* last absent, one request that carries the merge of those edits           *)
C30_SendsCoalesced ==
  [][ TimerFires =>
        \A id \in AllIds :
          edits[id] # << >> =>
            \E q \in requests' \ requests :
              q.id = id /\ q.body = MergeAll(edits[id]) ]_vars

(* the timer of the debounced variant: one pending timer at most, fired     *)
(* only after a quiet period of 30 seconds                                  *)
C30_TimerDiscipline == []C30_OneTimer /\ C30_QuietPeriod

(* C30: in the debounced variant every updateTechnology call cancels the    *)
(* armed save timer and arms a new one, so at most one save timer is armed  *)
(* at any time and a timer-triggered flush starts only after 30 seconds     *)
(* without a further updateTechnology call; that flush sends the coalesced  *)
(* entries of all the edits made in between.                                *)
C30_DebouncedTimer == []C30_OneTimer /\ C30_QuietPeriod /\ C30_SendsCoalesced

====
